---- MODULE Spec2Model ----
(***************************************************************************)
(* PriorityStoreLite (api.py): the in-memory cluster ledger, the file      *)
(* catalog and the create / delete / retrieve operations of the class      *)
(* PriorityStoreLite, called one after another on one instance.            *)
(*                                                                         *)
(* Numbers.  All byte quantities are integers.  The floating point values  *)
(* of the source are kept exact as scaled integers:                        *)
(*   effective[i]  holds  effective_py[i] * EffDen, where                  *)
(*                 EffDen = 2 * block_size * worst_latency                 *)
(*                        = 2 * max(latencies) * capacities[argmax];       *)
(*   shares and frequencies are compared after multiplying by 100 * S      *)
(*                 (S = sum(capacities)), thresholds 0.1 after             *)
(*                 multiplying by 10.                                      *)
(* worst_latency is the same number in every call, so the order of the     *)
(* scores and the test "effective < 1.0" are preserved exactly.            *)
(***************************************************************************)
EXTENDS Integers, Sequences, FiniteSets, TLC

\* ---------------------------------------------------------------- bounds
\* capacity of every node, in blocks (the clean setup has 256)
CapBlocks == 2
\* successful creates in one behaviour (priority_counter is cumulative)
MaxCreates == 3
\* blocks a node's availability may fall below zero before creates stop
MaxDebt == 3

\* cpu_count(): the threads one call of submit_tasks starts
NumWorkers == 2

\* calls of submit_tasks explored
MaxSubmissions == 2

\* longest task_list explored
MaxBatchLen == 2

\* ------------------------------------------------------- program constants
\* self.block_size, in bytes (a small value stands for 67108864)
block_size == 2
\* node_id=None, the default of create_file: automatic placement
None == -1
\* FILE_FREQUENCY, in percent
FILE_FREQUENCY == (0 :> 1) @@ (1 :> 9) @@ (2 :> 99)

\* cluster sizes, file names and priorities the calls are drawn from
ClusterSizes == {1, 2}
Names == {"a", "b"}
FileNames == Names \cup {"PSL"}
Priorities == {0, 1, 2}

VARIABLES
    num,               \* self.num: number of datanodes
    available,         \* self.available[i], bytes
    effective,         \* self.effective[i], scaled by EffDen
    priority_counter,  \* self.priority_counter[p]
    metadata,          \* self.metadata without its "PSL" key: name -> entry
    psl_key,           \* "PSL" in self.metadata
    last,              \* the last call: its arguments, selected node, outcome
    pre_available,     \* self.available on entry to the last call
    submissions,       \* the calls of submit_tasks so far, in order
    task_queue,        \* task_queue of every submission
    threads,           \* the worker threads of every submission
    finished           \* task_done() calls on the queue of every submission

\* the state of submit_tasks and of the threads it starts
pool == <<submissions, task_queue, threads, finished>>

vars == <<num, available, effective, priority_counter, metadata, psl_key,
          last, pre_available, submissions, task_queue, threads, finished>>

\* ---------------------------------------------------------------- helpers
Max(a, b) == IF a >= b THEN a ELSE b

\* int(a / b) of Python for b > 0: truncation toward zero
TruncDiv(a, b) == IF a >= 0 THEN a \div b ELSE -((-a) \div b)

RECURSIVE SumUpTo(_, _)
SumUpTo(f, k) == IF k < 0 THEN 0 ELSE f[k] + SumUpTo(f, k - 1)

\* sum(list) over the node table
sum(f) == SumUpTo(f, num - 1)

Nodes == 0 .. (num - 1)

\* self.latencies of a clean system: [90, 30] * int(num * 0.5), plus 30 when odd
latencies == [i \in Nodes |->
                IF i = num - 1 /\ num % 2 = 1 THEN 30
                ELSE IF i % 2 = 0 THEN 90 ELSE 30]

\* self.capacities: the same capacity on every node
capacities == [i \in Nodes |-> CapBlocks * block_size]

\* np.argmax(self.latencies): the first index holding the maximum
argmax_latency == CHOOSE i \in Nodes :
                    /\ \A j \in Nodes : latencies[j] <= latencies[i]
                    /\ \A j \in Nodes : j < i => latencies[j] < latencies[i]

\* 2 * block_size * worst_latency: the denominator of every effective score
EffDen == 2 * latencies[argmax_latency] * capacities[argmax_latency]

\* effectiveness_for_node(i) on the availability table avail, times EffDen
effectiveness_for_node(i, avail) ==
    IF capacities[i] = avail[i]
    THEN 4 * latencies[i] * block_size
    ELSE Max((capacities[i] - avail[i]) * latencies[i],
             2 * latencies[i] * block_size)

\* recompute_effectiveness
recompute_effectiveness(avail) ==
    [i \in Nodes |-> effectiveness_for_node(i, avail)]

\* "filename in self.metadata"
InMetadata(filename) ==
    IF filename = "PSL" THEN psl_key ELSE filename \in DOMAIN metadata

\* position of node k in sorted(enumerate(eff), key=score, reverse=True):
\* the sort is stable, so equal scores keep ascending index order
rank_desc(eff, k) ==
    Cardinality({j \in Nodes : \/ eff[j] > eff[k]
                               \/ (eff[j] = eff[k] /\ j < k)})

\* sorted_eff: node ids by descending score, indexed from 0 as in the source
sorted_eff_desc(eff) ==
    [p \in Nodes |-> CHOOSE k \in Nodes : rank_desc(eff, k) = p]

sorted_eff(eff) == sorted_eff_desc(eff)

\* get_effective_node_id with the share test of the low priority branch left
\* out: a low priority block is always displaced once the cluster is 90% full
get_effective_node_id_displacing(se, priority) ==
    LET n == num
        S == sum(capacities)
        high_missing == FILE_FREQUENCY[0] * S - 100 * priority_counter[0]
        med_missing  == FILE_FREQUENCY[1] * S - 100 * priority_counter[1]
    IN  IF priority = 0 \/ 10 * sum(available) > S
        THEN se[0]
        ELSE IF priority = 1
        THEN IF high_missing > 0
             THEN se[Max(TruncDiv(high_missing * n, 100 * S), 1)]
             ELSE se[0]
        ELSE se[Max(TruncDiv((high_missing + med_missing) * n, 100 * S), 1)]

\* get_effective_node_id(sorted_eff, priority), on the current ledger
get_effective_node_id(se, priority) ==
    LET n == num
        S == sum(capacities)
        high_missing == FILE_FREQUENCY[0] * S - 100 * priority_counter[0]
        med_missing  == FILE_FREQUENCY[1] * S - 100 * priority_counter[1]
    IN  IF priority = 0 \/ 10 * sum(available) > S
        THEN se[0]
        ELSE IF priority = 1
        THEN IF high_missing > 0
             THEN se[Max(TruncDiv(high_missing * n, 100 * S), 1)]
             ELSE se[0]
        ELSE IF high_missing > 0 \/ med_missing > 0
             THEN se[Max(TruncDiv((high_missing + med_missing) * n, 100 * S), 1)]
             ELSE se[0]

\* placement_node_id(priority): the node, the ledger it leaves and the
\* assertion that raised (if any)
placement_node_id(priority) ==
    IF num = 1
    THEN [node |-> 0, available |-> available, effective |-> effective,
          raised |-> "none"]
    ELSE LET node   == get_effective_node_id(sorted_eff(effective), priority)
             avail1 == [available EXCEPT ![node] = @ - block_size]
             eff1   == [effective EXCEPT
                          ![node] = effectiveness_for_node(node, avail1)]
         IN  IF ~(avail1[node] > 0)
             THEN [node |-> node, available |-> avail1, effective |-> effective,
                   raised |-> "NoCapacity"]
             ELSE IF ~(eff1[node] < EffDen)
             THEN [node |-> node, available |-> avail1, effective |-> eff1,
                   raised |-> "AssertionError"]
             ELSE [node |-> node, available |-> avail1, effective |-> eff1,
                   raised |-> "none"]

\* the early return of create_file with "and" in place of "or": it never fires
create_rejects_conjoined(filename, node_id) ==
    InMetadata(filename) /\ (node_id # None /\ FALSE)

\* the early return of create_file (node ids are drawn from range(num), so
\* "self.datanodes[node_id] not in self.datanodes" is false)
create_rejects(filename, node_id) == InMetadata(filename)

\* ---------------------------------------------------------------- state
Init ==
    /\ num \in ClusterSizes
    /\ available = [i \in 0 .. (num - 1) |-> CapBlocks * block_size]
    /\ effective = recompute_effectiveness(available)
    /\ priority_counter = [p \in Priorities |-> 0]
    /\ metadata = [g \in {} |-> [node_id |-> 0, priority |-> 0]]
    /\ psl_key \in BOOLEAN
    /\ last = [op |-> "init", name |-> "", node_id |-> None, priority |-> 2,
               node |-> None, result |-> "none"]
    /\ pre_available = available
    /\ submissions = <<>>
    /\ task_queue = <<>>
    /\ threads = [t \in {} |-> 0]
    /\ finished = <<>>

\* ---------------------------------------------------------------- actions
\* creates are explored while the cumulative counters and the debt of every
\* node are within the bounds
CreateBudget ==
    /\ priority_counter[0] + priority_counter[1] + priority_counter[2] < MaxCreates
    /\ \A i \in Nodes : available[i] > -(MaxDebt * block_size)

\* create_file(filename, node_id=node_id, priority=priority)
create_file(filename, node_id, priority) ==
    /\ CreateBudget
    /\ pre_available' = available
    /\ UNCHANGED pool
    /\ UNCHANGED num
    /\ IF create_rejects(filename, node_id)
       THEN /\ last' = [op |-> "create", name |-> filename, node_id |-> node_id,
                        priority |-> priority, node |-> None,
                        result |-> "AlreadyExists"]
            /\ UNCHANGED <<available, effective, priority_counter, metadata,
                           psl_key>>
       ELSE LET pl == IF node_id = None
                      THEN placement_node_id(priority)
                      ELSE [node |-> node_id, available |-> available,
                            effective |-> effective, raised |-> "none"]
            IN  /\ available' = pl.available
                /\ effective' = pl.effective
                /\ IF pl.raised # "none"
                   THEN /\ last' = [op |-> "create", name |-> filename,
                                    node_id |-> node_id, priority |-> priority,
                                    node |-> pl.node, result |-> pl.raised]
                        /\ UNCHANGED <<priority_counter, metadata, psl_key>>
                   ELSE /\ priority_counter' =
                              [priority_counter EXCEPT ![priority] = @ + 1]
                        \* the entry stored under "PSL" is overwritten by the
                        \* snapshot persist_metadata stores under the same key
                        /\ metadata' =
                              IF filename = "PSL" THEN metadata
                              ELSE (filename :> [node_id |-> pl.node,
                                                 priority |-> priority])
                                   @@ metadata
                        /\ psl_key' = TRUE
                        /\ last' = [op |-> "create", name |-> filename,
                                    node_id |-> node_id, priority |-> priority,
                                    node |-> pl.node, result |-> "Ok"]

\* delete_file that rejects only the reserved key and removes an unknown name
\* tolerantly: it goes on to persist_metadata and the remove command
delete_file_tolerant(filename) ==
    /\ pre_available' = available
    /\ UNCHANGED pool
    /\ UNCHANGED <<num, priority_counter>>
    /\ IF filename = "PSL"
       THEN /\ last' = [op |-> "delete", name |-> filename, node_id |-> None,
                        priority |-> 2, node |-> None, result |-> "NotFound"]
            /\ UNCHANGED <<available, effective, metadata, psl_key>>
       ELSE IF filename \notin DOMAIN metadata
       THEN /\ last' = [op |-> "delete", name |-> filename, node_id |-> None,
                        priority |-> 2, node |-> None, result |-> "Ok"]
            /\ psl_key' = TRUE
            /\ UNCHANGED <<available, effective, metadata>>
       ELSE LET node_id == metadata[filename].node_id
                avail1  == [available EXCEPT ![node_id] = @ + block_size]
            IN  /\ available' = avail1
                /\ effective' = [effective EXCEPT
                                   ![node_id] = effectiveness_for_node(node_id, avail1)]
                /\ metadata' = [g \in DOMAIN metadata \ {filename} |-> metadata[g]]
                /\ psl_key' = TRUE
                /\ last' = [op |-> "delete", name |-> filename, node_id |-> None,
                            priority |-> 2, node |-> node_id, result |-> "Ok"]

\* delete_file that takes the deleted file's block back out of its priority
\* counter, as a counter of the files currently stored would
delete_file_uncounting(filename) ==
    /\ pre_available' = available
    /\ UNCHANGED pool
    /\ UNCHANGED num
    /\ IF filename \notin DOMAIN metadata \/ filename = "PSL"
       THEN /\ last' = [op |-> "delete", name |-> filename, node_id |-> None,
                        priority |-> 2, node |-> None, result |-> "NotFound"]
            /\ UNCHANGED <<available, effective, priority_counter, metadata,
                           psl_key>>
       ELSE LET node_id == metadata[filename].node_id
                avail1  == [available EXCEPT ![node_id] = @ + block_size]
            IN  /\ available' = avail1
                /\ effective' = [effective EXCEPT
                                   ![node_id] = effectiveness_for_node(node_id, avail1)]
                /\ priority_counter' =
                      [priority_counter EXCEPT ![metadata[filename].priority] = @ - 1]
                /\ metadata' = [g \in DOMAIN metadata \ {filename} |-> metadata[g]]
                /\ psl_key' = TRUE
                /\ last' = [op |-> "delete", name |-> filename, node_id |-> None,
                            priority |-> 2, node |-> node_id, result |-> "Ok"]

\* delete_file(filename)
delete_file(filename) ==
    /\ pre_available' = available
    /\ UNCHANGED pool
    /\ UNCHANGED <<num, priority_counter>>
    /\ IF filename \notin DOMAIN metadata \/ filename = "PSL"
       THEN /\ last' = [op |-> "delete", name |-> filename, node_id |-> None,
                        priority |-> 2, node |-> None, result |-> "NotFound"]
            /\ UNCHANGED <<available, effective, metadata, psl_key>>
       ELSE LET node_id == metadata[filename].node_id
                avail1  == [available EXCEPT ![node_id] = @ + block_size]
            IN  /\ available' = avail1
                /\ effective' = [effective EXCEPT
                                   ![node_id] = effectiveness_for_node(node_id, avail1)]
                /\ metadata' = [g \in DOMAIN metadata \ {filename} |-> metadata[g]]
                /\ psl_key' = TRUE
                /\ last' = [op |-> "delete", name |-> filename, node_id |-> None,
                            priority |-> 2, node |-> node_id, result |-> "Ok"]

\* retrieve_file(filename): only the entry's timestamp changes
retrieve_file(filename) ==
    /\ pre_available' = available
    /\ UNCHANGED pool
    /\ UNCHANGED <<num, available, effective, priority_counter, metadata, psl_key>>
    /\ last' = [op |-> "retrieve", name |-> filename, node_id |-> None,
                priority |-> 2,
                node |-> IF filename \in DOMAIN metadata /\ filename # "PSL"
                         THEN metadata[filename].node_id ELSE None,
                result |-> IF filename \notin DOMAIN metadata \/ filename = "PSL"
                           THEN "NotFound" ELSE "Ok"]

\* placement_reassign without the threshold test of its first statement: it
\* goes on to the sort whatever the free fraction is
placement_reassign_unconditional ==
    /\ pre_available' = available
    /\ UNCHANGED pool
    /\ UNCHANGED <<num, available, effective, priority_counter, metadata, psl_key>>
    /\ last' = [op |-> "rebalance", name |-> "", node_id |-> None,
                priority |-> 2, node |-> None,
                result |-> IF psl_key \/ DOMAIN metadata # {}
                           THEN "TypeError"
                           ELSE "NoMoves",
                run |-> IF last.op = "rebalance" THEN 2 ELSE 1]

\* placement_reassign(): above the threshold it returns at once; below it the
\* sort of self.metadata.items() calls its two-parameter key with one
\* argument and raises TypeError unless the dictionary is empty ("PSL"
\* included), so the move set is computed only over no file at all and the
\* call returns at "len(move) < 1".  No path reaches move_file or submit_tasks.
placement_reassign ==
    /\ pre_available' = available
    /\ UNCHANGED pool
    /\ UNCHANGED <<num, available, effective, priority_counter, metadata, psl_key>>
    /\ last' = [op |-> "rebalance", name |-> "", node_id |-> None,
                priority |-> 2, node |-> None,
                result |-> IF 10 * sum(available) > 7 * sum(capacities)
                           THEN "AboveThreshold"
                           ELSE IF psl_key \/ DOMAIN metadata # {}
                           THEN "TypeError"
                           ELSE "NoMoves",
                \* 1 for a first run, 2 for a run that follows another run
                run |-> IF last.op = "rebalance" THEN 2 ELSE 1]

Next ==
    \/ \E filename \in FileNames, node_id \in {None} \cup Nodes,
          priority \in Priorities : create_file(filename, node_id, priority)
    \/ \E filename \in FileNames : delete_file(filename)
    \/ \E filename \in FileNames : retrieve_file(filename)
    \/ placement_reassign

Spec == Init /\ [][Next]_vars

\* ------------------------------------------------------------ worker pool
\* Every call of submit_tasks starts NumWorkers threads on a queue of its own.
\* A step of a thread is a run of statements of psl_worker and of the function
\* it called that ends where another thread's statement can decide what
\* follows; a thread switch inside one step is not explored, so every
\* behaviour here is one the threads can show.  persist_metadata is one step
\* with the statements before it.
\* the (func, args, kwargs) triples a task_list is made of
Tasks ==
    {[op |-> "create", name |-> "a", node_id |-> None, priority |-> 0],
     [op |-> "create", name |-> "b", node_id |-> None, priority |-> 0],
     [op |-> "delete", name |-> "a", node_id |-> None, priority |-> 2],
     [op |-> "retrieve", name |-> "a", node_id |-> None, priority |-> 2]}

\* the None that submit_tasks puts on the queue once per worker
Sentinel == [op |-> "None", name |-> "", node_id |-> None, priority |-> 2]

TaskLists == UNION {[1 .. n -> Tasks] : n \in 1 .. MaxBatchLen}

\* a thread is named by its submission and its position in "threads"
ThreadsOf(s) == {s} \X (1 .. NumWorkers)

\* a thread that runs no more: it left the loop of psl_worker at "break", or
\* an exception left func and, uncaught, ended the thread
Terminated(t) == threads[t].pc \in {"exited", "raised"}

\* a thread inside func(*args, **kwargs)
Executing(t) == threads[t].pc \notin {"get", "exited", "raised"}

\* the main thread is inside the join loop of a blocking submit_tasks
Joining == \E s \in DOMAIN submissions :
               submissions[s].block /\ ~submissions[s].returned

\* submit_tasks(task_list, block=block) up to its join loop: the threads are
\* started, then the tasks and one None per thread are put on a new queue
submit_tasks(task_list, block) ==
    /\ ~Joining
    /\ Len(submissions) < MaxSubmissions
    /\ LET s == Len(submissions) + 1
       IN  /\ submissions' = Append(submissions,
                                    [block |-> block, size |-> Len(task_list),
                                     returned |-> ~block])
           /\ task_queue' = Append(task_queue,
                                   task_list \o [w \in 1 .. NumWorkers |-> Sentinel])
           /\ threads' = [t \in DOMAIN threads \cup ThreadsOf(s) |->
                            IF t \in DOMAIN threads THEN threads[t]
                            ELSE [pc |-> "get", task |-> Sentinel, node |-> None,
                                  sentinels |-> 0, raised |-> "none"]]
           /\ finished' = Append(finished, 0)
    /\ UNCHANGED <<num, available, effective, priority_counter, metadata,
                   psl_key, last, pre_available>>

\* the join loop of a blocking submit_tasks ends: every thread it started has
\* terminated
submit_tasks_return(s) ==
    /\ submissions[s].block /\ ~submissions[s].returned
    /\ \A t \in ThreadsOf(s) : Terminated(t)
    /\ submissions' = [submissions EXCEPT ![s].returned = TRUE]
    /\ UNCHANGED <<num, available, effective, priority_counter, metadata,
                   psl_key, last, pre_available, task_queue, threads, finished>>

\* the thread leaves func by an uncaught exception: psl_worker has no handler,
\* so the thread ends there, before task_done()
Raise(t, exception) ==
    [threads EXCEPT ![t].pc = "raised", ![t].raised = exception]

\* func returned: task_done(), and the thread is back at task_queue.get()
Return(t) ==
    /\ threads' = [threads EXCEPT ![t].pc = "get", ![t].task = Sentinel,
                                  ![t].node = None]
    /\ finished' = [finished EXCEPT ![t[1]] = @ + 1]

\* psl_worker: command = task_queue.get(); None breaks the loop, anything else
\* is called, here up to the test its function starts with
psl_worker_get(t) ==
    /\ threads[t].pc = "get"
    /\ task_queue[t[1]] # <<>>
    /\ task_queue' = [task_queue EXCEPT ![t[1]] = Tail(@)]
    /\ UNCHANGED <<num, available, effective, priority_counter, metadata,
                   psl_key, last, pre_available, submissions>>
    /\ LET command == Head(task_queue[t[1]])
           absent  == command.name \notin DOMAIN metadata \/ command.name = "PSL"
           enter(pc, node) ==
               /\ threads' = [threads EXCEPT ![t].pc = pc, ![t].task = command,
                                             ![t].node = node]
               /\ UNCHANGED finished
       IN  IF command = Sentinel
           THEN /\ threads' = [threads EXCEPT ![t].pc = "exited",
                                              ![t].sentinels = @ + 1]
                /\ UNCHANGED finished
           ELSE IF command.op = "create"
           THEN IF create_rejects(command.name, command.node_id)
                THEN Return(t)
                ELSE IF command.node_id # None
                THEN enter("create_record", command.node_id)
                ELSE IF num = 1
                THEN enter("create_record", 0)
                ELSE enter("placement_reserve", None)
           ELSE IF command.op = "delete"
           THEN IF absent THEN Return(t) ELSE enter("delete_credit", None)
           ELSE IF absent THEN Return(t) ELSE enter("retrieve_read", None)

\* placement_node_id from the ranking to "assert self.available[node] > 0"
placement_reserve(t) ==
    /\ threads[t].pc = "placement_reserve"
    /\ LET pl == placement_node_id(threads[t].task.priority)
       IN  /\ available' = pl.available
           /\ threads' = IF pl.raised = "NoCapacity"
                         THEN [Raise(t, "NoCapacity") EXCEPT ![t].node = pl.node]
                         ELSE [threads EXCEPT ![t].pc = "placement_recompute",
                                              ![t].node = pl.node]
    /\ UNCHANGED <<num, effective, priority_counter, metadata, psl_key, last,
                   pre_available, submissions, task_queue, finished>>

\* placement_node_id from self.effectiveness_for_node(node) to its return
placement_recompute(t) ==
    /\ threads[t].pc = "placement_recompute"
    /\ LET node == threads[t].node
           e    == effectiveness_for_node(node, available)
       IN  /\ effective' = [effective EXCEPT ![node] = e]
           /\ IF e < EffDen
              THEN /\ psl_key' = TRUE
                   /\ threads' = [threads EXCEPT ![t].pc = "create_record"]
              ELSE /\ threads' = Raise(t, "AssertionError")
                   /\ UNCHANGED psl_key
    /\ UNCHANGED <<num, available, priority_counter, metadata, last,
                   pre_available, submissions, task_queue, finished>>

\* create_file from the increment of the priority counter to its return
create_record(t) ==
    /\ threads[t].pc = "create_record"
    /\ LET task == threads[t].task
       IN  /\ priority_counter' =
                 [priority_counter EXCEPT ![task.priority] = @ + 1]
           /\ metadata' = (task.name :> [node_id |-> threads[t].node,
                                         priority |-> task.priority])
                          @@ metadata
    /\ psl_key' = TRUE
    /\ Return(t)
    /\ UNCHANGED <<num, available, effective, last, pre_available, submissions,
                   task_queue>>

\* delete_file from the reads of self.metadata[filename] to the credit
delete_credit(t) ==
    /\ threads[t].pc = "delete_credit"
    /\ LET filename == threads[t].task.name
       IN  IF filename \notin DOMAIN metadata
           THEN /\ threads' = Raise(t, "KeyError")
                /\ UNCHANGED available
           ELSE LET node_id == metadata[filename].node_id
                IN  /\ available' = [available EXCEPT ![node_id] = @ + block_size]
                    /\ threads' = [threads EXCEPT ![t].pc = "delete_recompute",
                                                  ![t].node = node_id]
    /\ UNCHANGED <<num, effective, priority_counter, metadata, psl_key, last,
                   pre_available, submissions, task_queue, finished>>

\* delete_file from self.effectiveness_for_node(node_id) to its return
delete_recompute(t) ==
    /\ threads[t].pc = "delete_recompute"
    /\ LET filename == threads[t].task.name
           node_id  == threads[t].node
       IN  /\ effective' = [effective EXCEPT
                              ![node_id] = effectiveness_for_node(node_id, available)]
           /\ IF filename \notin DOMAIN metadata
              THEN /\ threads' = Raise(t, "KeyError")
                   /\ UNCHANGED <<metadata, psl_key, finished>>
              ELSE /\ metadata' = [g \in DOMAIN metadata \ {filename} |-> metadata[g]]
                   /\ psl_key' = TRUE
                   /\ Return(t)
    /\ UNCHANGED <<num, available, priority_counter, last, pre_available,
                   submissions, task_queue>>

\* retrieve_file after its test: the reads and the write of the entry
retrieve_read(t) ==
    /\ threads[t].pc = "retrieve_read"
    /\ IF threads[t].task.name \notin DOMAIN metadata
       THEN /\ threads' = Raise(t, "KeyError")
            /\ UNCHANGED finished
       ELSE Return(t)
    /\ UNCHANGED <<num, available, effective, priority_counter, metadata,
                   psl_key, last, pre_available, submissions, task_queue>>

PoolNext ==
    \/ \E task_list \in TaskLists, block \in BOOLEAN : submit_tasks(task_list, block)
    \/ \E s \in DOMAIN submissions : submit_tasks_return(s)
    \/ \E t \in DOMAIN threads : psl_worker_get(t)
    \/ \E t \in DOMAIN threads : placement_reserve(t)
    \/ \E t \in DOMAIN threads : placement_recompute(t)
    \/ \E t \in DOMAIN threads : create_record(t)
    \/ \E t \in DOMAIN threads : delete_credit(t)
    \/ \E t \in DOMAIN threads : delete_recompute(t)
    \/ \E t \in DOMAIN threads : retrieve_read(t)

PoolSpec == Init /\ [][PoolNext]_vars

\* ================================================================ claims
\* Every call leaves its arguments, the node it selected and its outcome in
\* last', so a step of create_file(f, n, p) is a step with last'.op = "create",
\* last'.name = f, last'.node_id = n and last'.priority = p.

\* the node a create with automatic placement selects in the current state
selected(priority) == get_effective_node_id(sorted_eff(effective), priority)

\* a create step with automatic placement that reaches placement_node_id
AutoCreate(priority) ==
    /\ last'.op = "create" /\ last'.node_id = None /\ last'.priority = priority
    /\ last'.result # "AlreadyExists"

\* C1: after any sequence of create and delete operations every node i has
\* 0 <= available[i] <= capacity[i].
C1_AvailableWithinCapacity ==
    \A i \in Nodes : 0 <= available[i] /\ available[i] <= capacities[i]

\* C2: a successful create of a name that was not in the catalog, followed
\* immediately by delete of the same name, leaves available of every node at
\* its value before the create.
C2_CreateThenDeleteRestores ==
    [][(/\ last.op = "create" /\ last.result = "Ok" /\ last.name \in Names
        /\ last'.op = "delete" /\ last'.name = last.name)
       => available' = pre_available]_vars

\* C3: when the reservation on the selected node would leave available <= 0,
\* the create fails with NoCapacity and available, the catalog and the
\* priority counters keep their values (the reservation is rolled back).
C3_FailedReservationRolledBack ==
    [][\A p \in Priorities :
         (AutoCreate(p) /\ num > 1
            /\ available[selected(p)] - block_size <= 0)
         => /\ last'.result = "NoCapacity"
            /\ available' = available
            /\ metadata' = metadata
            /\ priority_counter' = priority_counter]_vars

\* C4: a create with an explicit node id charges one block against that node
\* on success, and fails with NoCapacity, recording no entry, when the node
\* cannot hold another block.
C4_ExplicitNodeIsCharged ==
    [][\A n \in Nodes :
         (/\ last'.op = "create" /\ last'.node_id = n
          /\ last'.name \in Names /\ last'.name \notin DOMAIN metadata)
         => /\ last'.result = "Ok" => available'[n] = available[n] - block_size
            /\ available[n] < block_size
                 => (last'.result = "NoCapacity" /\ metadata' = metadata)]_vars

\* C5: with one node exhausted and another node able to take a block, a create
\* with automatic placement succeeds on a node that is not exhausted; it
\* fails with NoCapacity only when no node can take a block.
C5_RoutesAroundExhaustedNode ==
    [][\A p \in Priorities :
         (AutoCreate(p) /\ num > 1)
         => /\ ((\E e \in Nodes : available[e] - block_size <= 0)
                  /\ (\E j \in Nodes : available[j] - block_size > 0))
                 => (last'.result = "Ok"
                       /\ available[last'.node] - block_size > 0)
            /\ last'.result = "NoCapacity"
                 => \A j \in Nodes : available[j] - block_size <= 0]_vars

\* C6: a priority-0 create with automatic placement selects a node whose
\* effective score is the lowest of all nodes.
C6_HighPrioritySelectsLowestScore ==
    [][(AutoCreate(0) /\ num > 1)
       => \A j \in Nodes : effective[last'.node] <= effective[j]]_vars

\* C7: a priority-1 create with automatic placement, with the free fraction
\* at least 0.10 and the high share below 0.01, selects
\* ranked[max(floor((0.01 - high_share) * N), 1)], never ranked[0].
C7_MediumPriorityIsDisplaced ==
    [][(/\ AutoCreate(1) /\ num > 1
        /\ 10 * sum(available) >= sum(capacities)
        /\ 100 * priority_counter[0] < FILE_FREQUENCY[0] * sum(capacities))
       => LET S  == sum(capacities)
              se == sorted_eff(effective)
              k  == Max(TruncDiv((FILE_FREQUENCY[0] * S
                                    - 100 * priority_counter[0]) * num,
                                 100 * S), 1)
          IN  last'.node = se[k] /\ last'.node # se[0]]_vars

\* C8: a priority-2 create with automatic placement, with the high and the
\* medium share both at or above their targets, selects the node a
\* priority-0 create selects in the same state.
C8_LowPriorityAtTargetSelectsBest ==
    [][(/\ AutoCreate(2) /\ num > 1
        /\ 100 * priority_counter[0] >= FILE_FREQUENCY[0] * sum(capacities)
        /\ 100 * priority_counter[1] >= FILE_FREQUENCY[1] * sum(capacities))
       => last'.node = selected(0)]_vars

\* a priority-2 create went through placement with both shares at target and
\* no more than 10% of the cluster free, where the share test decides
C8_Witness ==
    /\ num > 1
    /\ last.op = "create" /\ last.priority = 2 /\ last.node_id = None
    /\ last.result \in {"Ok", "NoCapacity", "AssertionError"}
    /\ 100 * priority_counter[0] >= FILE_FREQUENCY[0] * sum(capacities)
    /\ 100 * priority_counter[1] >= FILE_FREQUENCY[1] * sum(capacities)
    /\ 10 * sum(pre_available) <= sum(capacities)

\* C9: delete of a name that is not in the catalog, or of the reserved key
\* "PSL", returns NotFound and leaves available, effective, the priority
\* counters and the catalog unchanged.
C9_DeleteUnknownIsNoOp ==
    [][(/\ last'.op = "delete"
        /\ (last'.name \notin DOMAIN metadata \/ last'.name = "PSL"))
       => /\ last'.result = "NotFound"
          /\ UNCHANGED <<available, effective, priority_counter, metadata,
                         psl_key>>]_vars

\* an unknown name was deleted while the catalog held a file and the ledger
\* had a block charged
C9_Witness ==
    /\ last.op = "delete" /\ last.result = "NotFound" /\ last.name \in Names
    /\ DOMAIN metadata # {}
    /\ \E i \in Nodes : available[i] # capacities[i]

\* C10: create of a name that is in the catalog returns AlreadyExists and
\* leaves the entry, available, effective and the priority counters
\* unchanged, with automatic and with explicit placement.
C10_CreateExistingIsNoOp ==
    [][(last'.op = "create" /\ last'.name \in DOMAIN metadata)
       => /\ last'.result = "AlreadyExists"
          /\ UNCHANGED <<available, effective, priority_counter, metadata>>]_vars

\* an existing name was created again with automatic placement on a cluster
\* where placement charges a block
C10_Witness ==
    /\ num > 1
    /\ last.op = "create" /\ last.result = "AlreadyExists"
    /\ last.node_id = None
    /\ last.name \in DOMAIN metadata

\* C14: a rebalance run that immediately follows another rebalance run
\* produces an empty move set (it returns normally, above the threshold or
\* with nothing to move) and changes neither the catalog nor the ledger.
C14_SecondRebalanceIsEmpty ==
    [][(last.op = "rebalance" /\ last'.op = "rebalance")
       => /\ last'.result \in {"AboveThreshold", "NoMoves"}
          /\ UNCHANGED <<available, effective, priority_counter, metadata,
                         psl_key>>]_vars

\* C15: priority_counter[p] increases by exactly 1 on every successful create
\* at priority p and is left unchanged by every other step: a failed create
\* (AlreadyExists, NoCapacity), a delete, a retrieve; so it counts the
\* successful creates at priority p so far.
C15_PriorityCounterIsCumulative ==
    [][\A p \in Priorities :
         priority_counter'[p] =
            IF last'.op = "create" /\ last'.result = "Ok" /\ last'.priority = p
            THEN priority_counter[p] + 1
            ELSE priority_counter[p]]_vars

\* a file was deleted, the catalog is empty again, and the counters still
\* hold the creates of two priorities
C15_Witness ==
    /\ last.op = "delete" /\ last.result = "Ok"
    /\ DOMAIN metadata = {}
    /\ \E p, q \in Priorities :
          p # q /\ priority_counter[p] >= 1 /\ priority_counter[q] >= 1

\* C16: a create or delete that changes available[i] recomputes effective[i]
\* for that node only: afterwards effective[i] is the effectiveness formula
\* applied to the new available[i], and effective[j] is unchanged for every
\* other node j.
C16_RecomputesChangedNodeOnly ==
    [][\A i \in Nodes :
         (last'.op \in {"create", "delete"} /\ available'[i] # available[i])
         => /\ effective'[i] = effectiveness_for_node(i, available')
            /\ \A j \in Nodes \ {i} : effective'[j] = effective[j]]_vars

\* C20: a rebalance run started with sum(available) > 0.7 * sum(capacities),
\* or one whose computed move set is empty, returns without scheduling any
\* delete or create and leaves the catalog, available, effective and the
\* priority counters unchanged.
C20_RebalanceAboveThresholdIsNoOp ==
    [][(/\ last'.op = "rebalance"
        /\ (10 * sum(available) > 7 * sum(capacities)
              \/ last'.result = "NoMoves"))
       => /\ last'.result \in {"AboveThreshold", "NoMoves"}
          /\ UNCHANGED <<available, effective, priority_counter, metadata,
                         psl_key>>]_vars

\* rebalance returned at the threshold test on a cluster of two nodes that
\* stores a file and has a block charged
C20_Witness ==
    /\ num > 1
    /\ last.op = "rebalance" /\ last.result = "AboveThreshold"
    /\ DOMAIN metadata # {}
    /\ \E i \in Nodes : available[i] < capacities[i]

\* C11: a blocking submit_tasks returns only after every operation of its
\* batch has been executed to completion by some worker.
C11_BlockingSubmitRunsWholeBatch ==
    \A s \in DOMAIN submissions :
       (submissions[s].block /\ submissions[s].returned)
       => finished[s] = submissions[s].size

\* thread t has changed available[i] in a create or delete and has not yet
\* finished the recompute of effective[i] that follows
InSection(t, i) ==
    /\ threads[t].pc \in {"placement_recompute", "delete_recompute"}
    /\ threads[t].node = i

\* C12: the reserve/rollback/recompute sequences of concurrent creates and
\* deletes on the same node are mutually exclusive: no two workers are at the
\* same time between reading available[i] and finishing the recompute of
\* effective[i] for the same node i.
C12_SameNodeSectionsExclusive ==
    \A i \in Nodes : \A t1, t2 \in DOMAIN threads :
       (InSection(t1, i) /\ InSection(t2, i)) => t1 = t2

\* C13: a retrieve that runs concurrently with a delete of the same name
\* behaves as if the file existed throughout or returns NotFound: it never
\* passes its existence test and then reads an entry the delete has removed
\* (the read of a removed entry is the KeyError that ends its thread).
C13_RetrieveSynchronizedWithDelete ==
    \A t \in DOMAIN threads :
       threads[t].task.op = "retrieve" => threads[t].raised # "KeyError"

\* C17: the number of operations being executed at the same time never
\* exceeds the pool size, also when batches are submitted without blocking
\* one after another.
C17_ConcurrencyBoundedByPoolSize ==
    Cardinality({t \in DOMAIN threads : Executing(t)}) <= NumWorkers

\* C18: a NoCapacity failure raised by an operation does not stop the worker
\* that ran it: the worker goes on to take further tasks from the queue.
C18_NoCapacityKeepsWorkerRunning ==
    \A t \in DOMAIN threads :
       threads[t].raised = "NoCapacity" => ~Terminated(t)

\* C19: a worker that runs no more has consumed exactly one sentinel, and a
\* worker consumes a sentinel only when no real task of its submission is
\* left in the queue (that every worker exits at all is the liveness half of
\* the claim).
C19_WorkersExitOnOneSentinel ==
    [][\A t \in DOMAIN threads :
         (~Terminated(t) /\ threads'[t].pc \in {"exited", "raised"})
         => /\ threads'[t].sentinels = 1
            /\ \A k \in DOMAIN task_queue'[t[1]] :
                  task_queue'[t[1]][k] = Sentinel]_vars

\* C21: after any sequence of sequential create, delete and retrieve
\* operations, for every node i, available[i] = capacity[i] - block_size *
\* (number of catalog entries whose node_id is i).
C21_LedgerMatchesCatalog ==
    \A i \in Nodes :
       available[i] = capacities[i]
                        - block_size * Cardinality({f \in DOMAIN metadata :
                                                      metadata[f].node_id = i})

\* C22: on a cluster of two or more nodes the assertion effective[node] < 1.0
\* of placement never fails after a reservation that left available[node]
\* above 0: the node just reserved on has a score below 1.0.
C22_ReservedNodeScoreBelowOne ==
    [][\A p \in Priorities :
         (AutoCreate(p) /\ num > 1 /\ available'[last'.node] > 0)
         => /\ last'.result # "AssertionError"
            /\ effective'[last'.node] < EffDen]_vars

\* C23: of two creates of the same new name run by two workers at most one
\* succeeds: a create that records its entry and counts its block does so for
\* a name the catalog does not hold (the other one returned AlreadyExists and
\* charged nothing).
C23_OneCreatePerName ==
    [][\A t \in DOMAIN threads :
         (threads[t].pc = "create_record" /\ threads'[t].pc = "get")
         => threads[t].task.name \notin DOMAIN metadata]_vars

====
